---------------------------- MODULE Spec2Model ----------------------------
(***************************************************************************)
(* Model of tools/eval_sine_quality.py: the reader of the two-column data  *)
(* file (read_data), the command-line driver (main) and the analysis       *)
(* (eval_sine_quality).                                                    *)
(*                                                                         *)
(* Two specifications:                                                     *)
(*   SpecMain  one run of the program: main reads a file line by line,     *)
(*             checks the shape and calls eval_sine_quality once;          *)
(*   Spec      eval_sine_quality called directly, up to MaxCalls times, on *)
(*             one caller-owned array.                                     *)
(*                                                                         *)
(* Integer arithmetic (the two structural checks, the sum behind the       *)
(* offset) is modelled exactly. Sample codes are far below 2^62, so the    *)
(* int64 differences and sums of the source never wrap. The floating-point *)
(* metrics are modelled by IEEE-754 class: "zero", "fin" (finite, value    *)
(* not determined here, possibly zero), "nan", "+inf", "-inf" and "any"    *)
(* (not determined here at all).                                           *)
(***************************************************************************)
EXTENDS Integers, Sequences, FiniteSets, TLC

VARIABLES
    pc,        \* position of the program / of the caller
    argc,      \* len(sys.argv)
    fileRead,  \* the lines of the file consumed so far, in order
    buf,       \* read_data: the local array `data` (Len(buf) = data.shape[0])
    n,         \* read_data: the local row counter `n`
    data,      \* the array object handed to eval_sine_quality (caller-owned)
    entry,     \* value of `data` when the current/last call was entered
    out,       \* everything printed on stdout so far
    reports,   \* per call of eval_sine_quality: the lines that call printed
    exc,       \* "" or the error that ended the run / the call
    status,    \* process exit status, -1 while running
    fperr      \* IEEE exceptions signalled by the last call (numpy warns)

vars == <<pc, argc, fileRead, buf, n, data, entry, out, reports, exc, status, fperr>>

----------------------------------------------------------------------------
(* Bounds of the model.                                                    *)

\* Sample codes are drawn from -1 .. MaxVal.
MaxVal == 1
\* Longest array handed directly to eval_sine_quality.
MaxLen == 12
\* Number of calls of eval_sine_quality on the same array object.
MaxCalls == 2
\* Longest file read by read_data.
MaxLines == 12
\* Rows of the buffer read_data allocates first. The source allocates 1024
\* (line 22); the model scales it down so that files cross several doublings.
InitRows == 2

\* Minimum record length (lines 44 and 144).
MinSamples == 4

Vals == -1 .. MaxVal

----------------------------------------------------------------------------
(* Sequence helpers.                                                       *)

RECURSIVE SumSeq(_)
SumSeq(s) == IF s = <<>> THEN 0 ELSE Head(s) + SumSeq(Tail(s))

\* numpy.amin / numpy.amax of a non-empty array
AMin(s) == CHOOSE x \in {s[i] : i \in 1..Len(s)} : \A j \in 1..Len(s) : x <= s[j]
AMax(s) == CHOOSE x \in {s[i] : i \in 1..Len(s)} : \A j \in 1..Len(s) : x >= s[j]

\* a[lo:hi] of Python, 0-based and half-open, clipped to the array
Slice(s, lo, hi) ==
    LET h == IF hi > Len(s) THEN Len(s) ELSE hi
    IN  IF lo >= h THEN <<>> ELSE [i \in 1..(h - lo) |-> s[lo + i]]

\* data[:,c] of an (N,2) array, c = 0 or 1
Column(d, c) == [i \in 1..Len(d) |-> d[i][c + 1]]

AllZero(s) == \A i \in 1..Len(s) : s[i] = 0

----------------------------------------------------------------------------
(* Text of the data file. A line is a sequence of characters.              *)

Whitespace == {" ", "\n"}
DigitChars == <<"0", "1", "2", "3", "4", "5", "6", "7", "8", "9">>
IsDigit(c) == \E d \in 1..Len(DigitChars) : DigitChars[d] = c
DigitValue(c) == (CHOOSE d \in 1..Len(DigitChars) : DigitChars[d] = c) - 1

\* s.split(): the maximal runs of non-whitespace characters, in order
RECURSIVE SplitFrom(_, _, _)
SplitFrom(s, cur, acc) ==
    IF s = <<>>
    THEN IF cur = <<>> THEN acc ELSE Append(acc, cur)
    ELSE IF Head(s) \in Whitespace
         THEN SplitFrom(Tail(s), <<>>, IF cur = <<>> THEN acc ELSE Append(acc, cur))
         ELSE SplitFrom(Tail(s), Append(cur, Head(s)), acc)

Split(s) == SplitFrom(s, <<>>, <<>>)

\* int(w): an optional sign followed by one or more decimal digits
Unsigned(w) == IF w # <<>> /\ Head(w) \in {"+", "-"} THEN Tail(w) ELSE w
IsIntLiteral(w) ==
    /\ Unsigned(w) # <<>>
    /\ \A i \in 1..Len(Unsigned(w)) : IsDigit(Unsigned(w)[i])

RECURSIVE DigitsValue(_, _)
DigitsValue(ds, acc) ==
    IF ds = <<>> THEN acc ELSE DigitsValue(Tail(ds), 10 * acc + DigitValue(Head(ds)))

IntOf(w) ==
    IF Head(w) = "-" THEN 0 - DigitsValue(Unsigned(w), 0) ELSE DigitsValue(Unsigned(w), 0)

\* The lines a file of the model is made of: two well-formed rows (one with
\* extra blanks, a sign and a two-digit number) and the malformed shapes.
GoodLineA == <<"1", " ", "-", "1", "\n">>
GoodLineB == <<" ", "-", "1", " ", " ", "1", "0", " ", "\n">>
GoodLines == {GoodLineA, GoodLineB}
BadLines ==
    { <<"\n">>,
      <<"1", "\n">>,
      <<"1", " ", "-", "1", " ", "1", "\n">>,
      <<"1", " ", "x", "\n">>,
      <<"x", " ", "1", "\n">>,
      <<"1", " ", "-", "\n">> }
Lines == GoodLines \cup BadLines

----------------------------------------------------------------------------
(* read_data                                                               *)

\* numpy.zeros((rows, 2))
Zeros(rows) == [i \in 1..rows |-> <<0, 0>>]

\* variant of Resize: the new array is allocated without the old rows
Resize_Zeroed(a, rows) == [i \in 1..rows |-> <<0, 0>>]

\* numpy.resize(a, (rows, 2)): a new array filled with repeated copies of a
Resize(a, rows) == [i \in 1..rows |-> a[((i - 1) % Len(a)) + 1]]

\* line 26-27: the buffer the row is written to
Grown(b, k) == IF k = Len(b) THEN Resize(b, 2 * k) ELSE b

\* variant of TwoColumns: extra fields are ignored
TwoColumns_AtLeast(w) == Len(w) >= 2

\* line 29-31: the row has exactly two fields
TwoColumns(w) == Len(w) = 2
\* line 32-33: both fields convert
RowDecodes(w) == TwoColumns(w) /\ IsIntLiteral(w[1]) /\ IsIntLiteral(w[2])

\* one iteration of the loop of read_data on line s
ReadLine ==
    /\ pc = "read"
    /\ Len(fileRead) < MaxLines
    /\ \E s \in Lines :
         LET b == Grown(buf, n)
             w == Split(s)
         IN  /\ fileRead' = Append(fileRead, s)
             /\ IF ~TwoColumns(w)
                THEN /\ exc' = "AssertionError"
                     /\ pc' = "exit"
                     /\ status' = 1
                     /\ buf' = b
                     /\ n' = n
                ELSE IF ~RowDecodes(w)
                THEN /\ exc' = "ValueError"
                     /\ pc' = "exit"
                     /\ status' = 1
                     /\ buf' = b
                     /\ n' = n
                ELSE /\ buf' = [b EXCEPT ![n + 1] = <<IntOf(w[1]), IntOf(w[2])>>]
                     /\ n' = n + 1
                     /\ UNCHANGED <<exc, pc, status>>
    /\ UNCHANGED <<argc, data, entry, out, reports, fperr>>

\* end of file: return data[:n,:] to main, which prints the shape
ReadReturn ==
    /\ pc = "read"
    /\ data' = Slice(buf, 0, n)
    /\ entry' = data'
    /\ out' = out \o << [metric |-> "got array", form |-> "shape", a |-> n, b |-> 2],
                         [metric |-> "", form |-> "blank", a |-> 0, b |-> 0] >>
    /\ pc' = "check"
    /\ UNCHANGED <<argc, fileRead, buf, n, reports, exc, status, fperr>>

----------------------------------------------------------------------------
(* eval_sine_quality                                                       *)

\* line 41-44 (the array always has two dimensions and two columns here)
EvalPrecondition(len) == len >= MinSamples /\ len % 4 = 0

\* dst[lo:hi] -= src, in place: dst outside the slice is untouched
ISubSlice(dst, lo, hi, src) ==
    [i \in 1..Len(dst) |-> IF lo < i /\ i <= hi THEN dst[i] - src[i - lo] ELSE dst[i]]

\* variant of QuarterDiff: the last quarter is compared without wrapping
QuarterDiff_NoWrap(dsin, dcos) ==
    LET len == Len(dsin)
        d1  == ISubSlice(dcos, 0, (3 * len) \div 4, Slice(dsin, len \div 4, len))
    IN  ISubSlice(d1, (3 * len) \div 4, len, Slice(dsin, (3 * len) \div 4, len))

\* line 52-53: the cosine column after the two in-place subtractions
QuarterDiff(dsin, dcos) ==
    LET len == Len(dsin)
        d1  == ISubSlice(dcos, 0, (3 * len) \div 4, Slice(dsin, len \div 4, len))
    IN  ISubSlice(d1, (3 * len) \div 4, len, Slice(dsin, 0, len \div 4))

\* line 48-56: dcos = data[:,1] is a view, so what is written to dcos is
\* written to the second column of the caller's array
AfterQuarterCheck(d) ==
    LET q == QuarterDiff(Column(d, 0), Column(d, 1))
    IN  [i \in 1..Len(d) |-> <<d[i][1], q[i]>>]

\* line 64: t = dsin[0:n//2] + dsin[n//2:]
HalfSum(dsin) ==
    LET len == Len(dsin)
        lo  == Slice(dsin, 0, len \div 2)
        hi  == Slice(dsin, len \div 2, len)
    IN  [i \in 1..Len(lo) |-> lo[i] + hi[i]]

\* line 58-61 and 69-72: the line printed for a deviation range
RangeLine(name, tmin, tmax) ==
    IF tmin = 0 /\ tmax = 0
    THEN << [metric |-> name, form |-> "exactly", a |-> 0, b |-> 0] >>
    ELSE << [metric |-> name, form |-> "range", a |-> tmin, b |-> tmax] >>

\* variant of CosShiftLine: nothing is printed for an exact match
CosShiftLine_SkipExact(t) ==
    IF AMin(t) = 0 /\ AMax(t) = 0 THEN <<>> ELSE RangeLine("cos shift", AMin(t), AMax(t))
\* variant of HalfPeriodLine: one LSB either way counts as exact
HalfPeriodLine_Tolerant(t) ==
    IF AMin(t) >= -1 /\ AMax(t) <= 1
    THEN RangeLine("half period", 0, 0)
    ELSE RangeLine("half period", AMin(t), AMax(t))

CosShiftLine(t) == RangeLine("cos shift", AMin(t), AMax(t))
HalfPeriodLine(t) == RangeLine("half period", AMin(t), AMax(t))

BlankLine == << [metric |-> "", form |-> "blank", a |-> 0, b |-> 0] >>
FloatLine(name, class) == << [metric |-> name, form |-> class, a |-> 0, b |-> 0] >>

\* line 76-77: numpy.mean(dsin), kept as the exact ratio sum / n
OffsetLine(dsin) ==
    << [metric |-> "offset", form |-> "ratio", a |-> SumSeq(dsin), b |-> Len(dsin)] >>

\* IEEE-754 classes of the floating-point results
FDiv(x, y) ==
    IF x = "nan" \/ y = "nan" \/ (x = "zero" /\ y = "zero") THEN "nan" ELSE "any"
FDivErr(x, y) == IF x = "zero" /\ y = "zero" THEN {"invalid"} ELSE {}
FLog10(x) ==
    CASE x = "nan"  -> "nan"
      [] x = "zero" -> "-inf"
      [] x = "+inf" -> "+inf"
      [] OTHER      -> "any"
FLog10Err(x) == IF x = "zero" THEN {"divide"} ELSE {}
\* x * c + d with c > 0 finite and d finite
FAffine(x) == IF x = "zero" THEN "fin" ELSE x
\* x * c with c > 0 finite
FScale(x) == x

\* line 80-87: asin, acos are sums of dsin[i] * tref[i]; all products and the
\* sums are exactly 0.0 for an all-zero record
Ampl(dsin) == IF AllZero(dsin) THEN "zero" ELSE "fin"
\* line 88: arctan2(0.0, 0.0) = 0.0
Phase(dsin) == IF AllZero(dsin) THEN "zero" ELSE "fin"
\* line 95-99: terr = dsin - ampl * sin(...)
PeakErr(dsin) == IF AllZero(dsin) THEN "zero" ELSE "fin"
\* line 100: numpy.std(terr)
RmsErr(dsin) == IF AllZero(dsin) THEN "zero" ELSE "fin"
\* line 107
Sinad(ampl, rmserr) == FScale(FLog10(FDiv(FScale(ampl), rmserr)))
\* line 109
Enob(sinad) == FAffine(sinad)
\* line 112-114: every bin of the transform of an all-zero record is 0
Tampl(dsin) == IF AllZero(dsin) THEN "zero" ELSE "fin"
Tspur(dsin) == IF AllZero(dsin) THEN "zero" ELSE "fin"
\* line 116
Sfdr(dsin) == FScale(FLog10(FDiv(Tampl(dsin), Tspur(dsin))))

\* the IEEE exceptions signalled on lines 107 and 116
FloatErrs(dsin) ==
    FDivErr(FScale(Ampl(dsin)), RmsErr(dsin))
      \cup FLog10Err(FDiv(FScale(Ampl(dsin)), RmsErr(dsin)))
      \cup FDivErr(Tampl(dsin), Tspur(dsin))
      \cup FLog10Err(FDiv(Tampl(dsin), Tspur(dsin)))

\* line 58-119: everything the call prints, in program order
Report(d) ==
    LET dsin == Column(d, 0)
        dcos == Column(AfterQuarterCheck(d), 1)
    IN  CosShiftLine(dcos)
          \o HalfPeriodLine(HalfSum(dsin))
          \o BlankLine
          \o OffsetLine(dsin)
          \o FloatLine("amplitude", Ampl(dsin))
          \o FloatLine("phase", Phase(dsin))
          \o BlankLine
          \o FloatLine("peak error", PeakErr(dsin))
          \o FloatLine("rms error", RmsErr(dsin))
          \o FloatLine("SINAD", Sinad(Ampl(dsin), RmsErr(dsin)))
          \o FloatLine("ENOB", Enob(Sinad(Ampl(dsin), RmsErr(dsin))))
          \o FloatLine("SFDR", Sfdr(dsin))
          \o BlankLine

\* one call eval_sine_quality(data)
EvalSineQuality ==
    /\ pc = "eval"
    /\ entry' = data
    /\ IF ~EvalPrecondition(Len(data))
       THEN /\ exc' = "AssertionError"
            /\ pc' = "raised"
            /\ reports' = Append(reports, <<>>)
            /\ UNCHANGED <<data, out, fperr>>
       ELSE /\ data' = AfterQuarterCheck(data)
            /\ out' = out \o Report(data)
            /\ reports' = Append(reports, Report(data))
            /\ fperr' = FloatErrs(Column(data, 0))
            /\ pc' = "returned"
            /\ exc' = ""
    /\ UNCHANGED <<argc, fileRead, buf, n, status>>

\* the caller calls again on the same array object
CallAgain ==
    /\ pc = "returned"
    /\ Len(reports) < MaxCalls
    /\ pc' = "eval"
    /\ UNCHANGED <<argc, fileRead, buf, n, data, entry, out, reports, exc, status, fperr>>

----------------------------------------------------------------------------
(* main                                                                    *)

\* a & b on non-negative integers
RECURSIVE BitAnd(_, _)
BitAnd(x, y) ==
    IF x = 0 \/ y = 0 THEN 0
    ELSE (x % 2) * (y % 2) + 2 * BitAnd(x \div 2, y \div 2)

\* variant of MainShapeOk: the power-of-two test is missing
MainShapeOk_NoPow2(len) == ~(len < MinSamples)

\* line 144: the record length main lets through
MainShapeOk(len) == ~(len < MinSamples \/ BitAnd(len, len - 1) # 0)

\* line 124-132
MainArgs ==
    /\ pc = "start"
    /\ IF argc # 2
       THEN /\ exc' = "usage"
            /\ status' = 1
            /\ pc' = "exit"
            /\ out' = out
       ELSE /\ out' = Append(out, [metric |-> "reading", form |-> "text", a |-> 0, b |-> 0])
            /\ pc' = "read"
            /\ UNCHANGED <<exc, status>>
    /\ UNCHANGED <<argc, fileRead, buf, n, data, entry, reports, fperr>>

\* line 138-146
MainCheck ==
    /\ pc = "check"
    /\ IF ~MainShapeOk(Len(data))
       THEN /\ exc' = "shape"
            /\ status' = 1
            /\ pc' = "exit"
       ELSE /\ pc' = "eval"
            /\ UNCHANGED <<exc, status>>
    /\ UNCHANGED <<argc, fileRead, buf, n, data, entry, out, reports, fperr>>

\* line 148-152: eval_sine_quality returned or raised; the process ends
MainExit ==
    /\ pc \in {"returned", "raised"}
    /\ status' = IF pc = "raised" THEN 1 ELSE 0
    /\ pc' = "exit"
    /\ UNCHANGED <<argc, fileRead, buf, n, data, entry, out, reports, exc, fperr>>

----------------------------------------------------------------------------
(* The arrays handed directly to eval_sine_quality: every array of up to   *)
(* MinSamples rows; above that, a constant background with one row that    *)
(* differs.                                                                *)

SampleSets(len) ==
    IF len <= MinSamples
    THEN [1..len -> Vals \X Vals]
    ELSE { [i \in 1..len |-> IF i = k THEN r ELSE g] :
             k \in 1..len, r \in Vals \X Vals, g \in Vals \X Vals }

Init ==
    /\ pc = "eval"
    /\ argc = 0
    /\ fileRead = <<>>
    /\ buf = <<>>
    /\ n = 0
    /\ data \in UNION { SampleSets(len) : len \in 0..MaxLen }
    /\ entry = data
    /\ out = <<>>
    /\ reports = <<>>
    /\ exc = ""
    /\ status = -1
    /\ fperr = {}

Next == EvalSineQuality \/ CallAgain

Spec == Init /\ [][Next]_vars

InitMain ==
    /\ pc = "start"
    /\ argc \in 1..3
    /\ fileRead = <<>>
    /\ buf = Zeros(InitRows)
    /\ n = 0
    /\ data = <<>>
    /\ entry = <<>>
    /\ out = <<>>
    /\ reports = <<>>
    /\ exc = ""
    /\ status = -1
    /\ fperr = {}

NextMain == MainArgs \/ ReadLine \/ ReadReturn \/ MainCheck \/ EvalSineQuality \/ MainExit

SpecMain == InitMain /\ [][NextMain]_vars

----------------------------------------------------------------------------
(* Vocabulary of the properties.                                           *)

\* N >= 4 and N is a power of two
IsValidLen(len) == len >= 4 /\ \E k \in 0..len : len = 2^k

MetricOrder ==
    << "cos shift", "half period", "offset", "amplitude", "phase",
       "peak error", "rms error", "SINAD", "ENOB", "SFDR" >>
MetricNames == {MetricOrder[i] : i \in 1..Len(MetricOrder)}

IsMetric(e) == e.metric \in MetricNames
NamesOf(rep) == LET m == SelectSeq(rep, IsMetric) IN [i \in 1..Len(m) |-> m[i].metric]
HasMetrics == \E i \in 1..Len(out) : IsMetric(out[i])

LastReport == reports[Len(reports)]
LineOf(rep, name) == CHOOSE e \in {rep[i] : i \in 1..Len(rep)} : e.metric = name

MinOf(S) == CHOOSE x \in S : \A y \in S : x <= y
MaxOf(S) == CHOOSE x \in S : \A y \in S : x >= y

\* cos[i] - sin[(i + N/4) mod N], i counted from 0, on the array as passed in
ShiftDiff(i) ==
    LET len == Len(entry)
    IN  entry[i + 1][2] - entry[((i + len \div 4) % len) + 1][1]
\* sin[i] + sin[i + N/2], i counted from 0, on the array as passed in
HalfSumAt(i) == entry[i + 1][1] + entry[i + 1 + Len(entry) \div 2][1]

\* the two integers written on a well-formed line of the model
RowOf(s) == IF s = GoodLineA THEN <<1, -1>> ELSE <<-1, 10>>
AllGood(f) == \A k \in 1..Len(f) : f[k] \in GoodLines

----------------------------------------------------------------------------
(* C1: shape validation accepts a sample count N if and only if N >= 4 and *)
(* N is a power of two, at both validation points: main lets the array     *)
(* through exactly then, and eval_sine_quality runs (instead of raising)   *)
(* exactly then.                                                           *)
C1_ShapeValidation ==
    /\ (pc \in {"returned", "raised"}) => ((pc = "returned") <=> IsValidLen(Len(entry)))
    /\ (exc = "shape") => ~IsValidLen(Len(data))
    /\ (argc = 2 /\ pc = "eval") => IsValidLen(Len(data))

(* C2: for a valid sample set the reported cosine-shift deviation is the   *)
(* exact minimum and maximum over all i in [0, N) of                       *)
(* cos[i] - sin[(i + N/4) mod N] on the values passed in, and "exactly" is *)
(* reported if and only if every such difference is 0.                     *)
C2_QuarterPeriod ==
    (pc = "returned" /\ IsValidLen(Len(entry))) =>
        LET D == {ShiftDiff(i) : i \in 0..(Len(entry) - 1)}
            e == LineOf(LastReport, "cos shift")
        IN  /\ e.a = MinOf(D)
            /\ e.b = MaxOf(D)
            /\ (e.form = "exactly") <=> (D = {0})

\* a call on 8 samples ended whose smallest difference is at a wrapped index only
C2_Witness ==
    /\ pc = "returned"
    /\ Len(entry) = 8
    /\ LineOf(LastReport, "cos shift").form = "range"
    /\ \E i \in 6..7 : \A j \in 0..7 : j # i => ShiftDiff(i) < ShiftDiff(j)

(* C3: for a valid sample set the reported half-period deviation is the    *)
(* exact minimum and maximum over all i in [0, N/2) of                     *)
(* sin[i] + sin[i + N/2], without tolerance: "exactly" is reported if and  *)
(* only if every such sum is 0.                                            *)
C3_HalfPeriod ==
    (pc = "returned" /\ IsValidLen(Len(entry))) =>
        LET H == {HalfSumAt(i) : i \in 0..(Len(entry) \div 2 - 1)}
            e == LineOf(LastReport, "half period")
        IN  /\ e.a = MinOf(H)
            /\ e.b = MaxOf(H)
            /\ (e.form = "exactly") <=> (H = {0})

\* a call ended on a record with a single one-LSB discrepancy, reported as 0 .. 1
C3_Witness ==
    /\ pc = "returned"
    /\ IsValidLen(Len(entry))
    /\ \E i \in 0..(Len(entry) \div 2 - 1) :
          /\ HalfSumAt(i) = 1
          /\ \A j \in 0..(Len(entry) \div 2 - 1) : j # i => HalfSumAt(j) = 0
    /\ LineOf(LastReport, "half period") =
          [metric |-> "half period", form |-> "range", a |-> 0, b |-> 1]

(* C4: the analysis does not mutate its input: when eval_sine_quality      *)
(* returns, every element of the caller's array equals its value before    *)
(* the call.                                                               *)
C4_InputUnchanged == (pc = "returned") => (data = entry)

(* C5: idempotence: two calls in succession on the same array object print *)
(* identical report fields.                                                *)
C5_Idempotent ==
    (pc = "returned" /\ Len(reports) >= 2) => (reports[1] = reports[2])

(* C6: reading fails at the first line that is not exactly two integer     *)
(* fields, and succeeds only when every line is; on failure no array       *)
(* reaches the caller.                                                     *)
C6_MalformedInput ==
    /\ \A k \in 1..(Len(fileRead) - 1) : fileRead[k] \in GoodLines
    /\ (fileRead # <<>> /\ fileRead[Len(fileRead)] \in BadLines) =>
          /\ pc = "exit"
          /\ exc \in {"AssertionError", "ValueError"}
          /\ status = 1
          /\ data = <<>>
          /\ \A i \in 1..Len(out) : out[i].metric # "got array"
    /\ (pc \in {"check", "eval", "returned"}) => AllGood(fileRead)

\* the read stopped at a malformed third line after two good ones
C6_Witness ==
    /\ Len(fileRead) = 3
    /\ fileRead[3] = <<"1", " ", "x", "\n">>
    /\ exc = "ValueError"
    /\ pc = "exit"

(* C7: validation precedes analysis: metrics are on the output only if     *)
(* every line was well formed and the sample count is a power of two >= 4, *)
(* and a run whose input is rejected ends with a failure status and no     *)
(* metric.                                                                 *)
C7_ValidationGate ==
    /\ HasMetrics => (AllGood(fileRead) /\ IsValidLen(Len(fileRead)))
    /\ (pc = "exit" /\ ~(AllGood(fileRead) /\ IsValidLen(Len(fileRead)))) =>
          (status = 1 /\ ~HasMetrics)

\* a run on 12 well-formed lines ended in the shape error, nothing analysed
C7_Witness ==
    /\ pc = "exit"
    /\ exc = "shape"
    /\ Len(fileRead) = 12
    /\ AllGood(fileRead)
    /\ status = 1
    /\ ~HasMetrics

(* C8: when the amplitude or the RMS error is zero the analysis completes  *)
(* and reports a defined sentinel for SINAD and ENOB: no division by zero  *)
(* or logarithm of zero is executed and neither value is a NaN.            *)
C8_DegenerateSentinel ==
    (/\ pc = "returned"
     /\ \/ LineOf(LastReport, "amplitude").form = "zero"
        \/ LineOf(LastReport, "rms error").form = "zero") =>
        /\ fperr = {}
        /\ LineOf(LastReport, "SINAD").form # "nan"
        /\ LineOf(LastReport, "ENOB").form # "nan"

(* C9: every completed analysis prints each of the ten metrics exactly     *)
(* once, in the order cosine-shift deviation, half-period deviation,       *)
(* offset, amplitude, phase, peak error, RMS error, SINAD, ENOB, SFDR,     *)
(* whatever the input values.                                              *)
C9_ReportOrder ==
    /\ \A c \in 1..Len(reports) : reports[c] = <<>> \/ NamesOf(reports[c]) = MetricOrder
    /\ (pc = "returned") => NamesOf(LastReport) = MetricOrder

\* a call ended with one range exactly zero and the other not
C9_Witness ==
    /\ pc = "returned"
    /\ LineOf(LastReport, "cos shift").form = "exactly"
    /\ LineOf(LastReport, "half period").form = "range"
    /\ Len(out) = Len(LastReport)

(* C10: read_data returns exactly one row per line read, row k holding the *)
(* two integers of line k, whatever the number of reallocations; rows      *)
(* already read survive every reallocation.                                *)
C10_BufferGrowth ==
    /\ (pc = "read") =>
          /\ n = Len(fileRead)
          /\ n <= Len(buf)
          /\ \A k \in 1..n : buf[k] = RowOf(fileRead[k])
    /\ (pc \in {"check", "eval", "returned"}) =>
          /\ Len(entry) = Len(fileRead)
          /\ \A k \in 1..Len(entry) : entry[k] = RowOf(fileRead[k])

\* a file of more than four times the first capacity was returned, both rows in it
C10_Witness ==
    /\ pc = "check"
    /\ Len(data) > 4 * InitRows
    /\ \E j, k \in 1..Len(data) : data[j] = <<1, -1>> /\ data[k] = <<-1, 10>>
    /\ Len(buf) >= 8 * InitRows

=============================================================================
